---- MODULE Spec2Model ----
\* A model of app/caps-controller-manager/main.go: the startup sequence of the
\* CAPS controller manager (the main goroutine), the debug sidecar goroutine it
\* spawns, the background tasks it starts, and the ways the process ends.
\* A second specification, SpecHA, runs several replicas of the same process
\* against one lease store.
EXTENDS Integers, Sequences, FiniteSets, TLC

\* ---------------------------------------------------------------- bounds

\* webhook-port is drawn from -MaxPort..MaxPort (negative, zero, positive).
MaxPort == 2
\* Number of process replicas in SpecHA.
NumReplicas == 2
\* Number of times replicas may be started again after exiting, in SpecHA.
MaxRestarts == 1

\* ------------------------------------------------------ program constants

debugAddr == ":9994"

Ports == (0 - MaxPort)..MaxPort
MetricsAddrs == {":8080", ":9090"}

\* The values flag.Parse can leave in the three flag variables.
Flags == [metricsAddr : MetricsAddrs,
          enableLeaderElection : BOOLEAN,
          webhookPort : Ports]

VARIABLES
    flags,          \* metricsAddr, enableLeaderElection, webhookPort
    pc,             \* position of the main goroutine
    spc,            \* position of the debug sidecar goroutine
    err,            \* the error the main goroutine is about to log ({} = none)
    broadcasters,   \* the event broadcasters created so far, by variable name
    mgr,            \* {} or {the ctrl.Options the manager was built with}
    clientset,      \* whether kubernetes.NewForConfig has returned a client
    recorder,       \* {} or {the recorder created at line 108}
    reconcilers,    \* registration entries of the reconcilers
    webhooks,       \* names of the registered webhooks
    regLog,         \* every registration attempted, in order, with its outcome
    log,            \* the log lines written, in order
    tasks,          \* background tasks: state and the context they run on
    signalled,      \* the termination signal has arrived (stop channel closed)
    startEntered,   \* mgr.Start has been called
    observed,       \* the fatal errors returned so far (history)
    exited,         \* the process has terminated
    exitStatus,     \* its exit status (meaningful once exited)
    exitBy,         \* the goroutine that terminated it
    rflags,         \* SpecHA: flags of each replica
    rstate,         \* SpecHA: lifecycle position of each replica
    rmgr,           \* SpecHA: manager options of each replica
    leases,         \* SpecHA: leases held in the object store
    restarts        \* SpecHA: restarts performed so far

mainVars == <<flags, pc, spc, err, broadcasters, mgr, clientset, recorder,
              reconcilers, webhooks, regLog, log, tasks, signalled,
              startEntered, observed, exited, exitStatus, exitBy>>
haVars == <<rflags, rstate, rmgr, leases, restarts>>
vars == <<flags, pc, spc, err, broadcasters, mgr, clientset, recorder,
          reconcilers, webhooks, regLog, log, tasks, signalled,
          startEntered, observed, exited, exitStatus, exitBy,
          rflags, rstate, rmgr, leases, restarts>>

\* ------------------------------------------------------------- operators

\* The options literal handed to ctrl.NewManager. An ID derived from a flag is
\* the variant used to show the lease claims depend on the literal.
ManagerOptionsPerAddr(f, b) ==
    [MetricsBindAddress |-> f.metricsAddr,
     LeaderElection     |-> f.enableLeaderElection,
     LeaderElectionID   |-> "controller-leader-election-capm" \o f.metricsAddr,
     Port               |-> f.webhookPort,
     EventBroadcaster   |-> b]

ManagerOptions(f, b) ==
    [MetricsBindAddress |-> f.metricsAddr,
     LeaderElection     |-> f.enableLeaderElection,
     LeaderElectionID   |-> "controller-leader-election-capm",
     Port               |-> f.webhookPort,
     EventBroadcaster   |-> b]

\* Variant: a non-positive port taken as "webhooks disabled".
ReconciliationModeNonPositive(port) == port <= 0

\* if webhookPort == 0 { reconcilers } else { webhooks }
ReconciliationMode(port) == port = 0

ReconcilerNames == <<"MetalCluster", "MetalMachine", "ServerBinding">>
WebhookNames == <<"MetalCluster", "MetalMachine", "MetalMachineTemplate", "ServerBinding">>

\* The registrations of the selected mode, in program order.
ModeSeq(port) ==
    IF ReconciliationMode(port) THEN ReconcilerNames ELSE WebhookNames

ModeKind(port) ==
    IF ReconciliationMode(port) THEN "controller" ELSE "webhook"

\* controller.Options passed to each SetupWithManager call.
MetalClusterOptions == [MaxConcurrentReconciles |-> 10]

\* Variant: the options literal left empty (the framework's single worker).
MetalMachineOptionsUnset == [MaxConcurrentReconciles |-> 1]

MetalMachineOptions == [MaxConcurrentReconciles |-> 10]

ServerBindingOptions == [MaxConcurrentReconciles |-> 10]

\* The reconciler struct literals: MetalCluster has no Recorder field set.
ReconcilerEntry(name, rec) ==
    CASE name = "MetalCluster" ->
           [name |-> name, options |-> MetalClusterOptions, Recorder |-> {}]
      [] name = "MetalMachine" ->
           [name |-> name, options |-> MetalMachineOptions, Recorder |-> rec]
      [] name = "ServerBinding" ->
           [name |-> name, options |-> ServerBindingOptions, Recorder |-> rec]

\* Variant: the error of a registration is not checked.
OnErrorIgnoreRegistration(step) ==
    IF step = "register" THEN "register" ELSE "logErr"

\* Variant: the error of ctrl.NewManager is not checked.
OnErrorIgnoreManager(step) ==
    IF step = "newManager" THEN "newClient" ELSE "logErr"

\* Every `if err != nil` of main: log the error, then os.Exit(1).
OnError(step) == "logErr"

\* Variant: every registration failure is logged under the first name.
ErrLineFirstName(step, kind, name) ==
    CASE step = "getConfig"  -> [msg |-> "unable to get kubeconfig", key |-> "", name |-> ""]
      [] step = "newManager" -> [msg |-> "unable to start manager", key |-> "", name |-> ""]
      [] step = "newClient"  -> [msg |-> "unable to create k8s client", key |-> "", name |-> ""]
      [] step = "register"   -> [msg |-> "unable to create " \o kind, key |-> kind,
                                 name |-> "MetalCluster"]
      [] step = "start"      -> [msg |-> "problem running manager", key |-> "", name |-> ""]
      [] step = "debug"      -> [msg |-> "failed to start debug server", key |-> "", name |-> ""]

\* The setupLog.Error call that follows each failing step.
ErrLine(step, kind, name) ==
    CASE step = "getConfig"  -> [msg |-> "unable to get kubeconfig", key |-> "", name |-> ""]
      [] step = "newManager" -> [msg |-> "unable to start manager", key |-> "", name |-> ""]
      [] step = "newClient"  -> [msg |-> "unable to create k8s client", key |-> "", name |-> ""]
      [] step = "register"   -> [msg |-> "unable to create " \o kind, key |-> kind,
                                 name |-> name]
      [] step = "start"      -> [msg |-> "problem running manager", key |-> "", name |-> ""]
      [] step = "debug"      -> [msg |-> "failed to start debug server", key |-> "", name |-> ""]

TaskNames == {"sidecar", "sinkForwarder", "reconcilers", "webhookServer"}

\* A context is cancelled only if it is the one SetupSignalHandler returns and
\* the signal has arrived; context.TODO() is never cancelled, and a task given
\* no context ("none") has none to observe.
Cancelled(ctx) == ctx = "signal" /\ signalled

\* The tasks mgr.Start runs for the selected mode.
ManagerTask(port) ==
    IF ReconciliationMode(port) THEN "reconcilers" ELSE "webhookServer"

Alive == ~exited

\* ------------------------------------------------------------------ Init

InitHA ==
    /\ rflags = [r \in 1..NumReplicas |->
                   [metricsAddr |-> ":8080", enableLeaderElection |-> TRUE,
                    webhookPort |-> 0]]
    /\ rstate = [r \in 1..NumReplicas |-> "stopped"]
    /\ rmgr = [r \in 1..NumReplicas |-> {}]
    /\ leases = {}
    /\ restarts = 0

InitMain ==
    /\ flags \in Flags
    /\ pc = "goSidecar"
    /\ spc = "unstarted"
    /\ err = {}
    /\ broadcasters = [b \in {} |-> 0]
    /\ mgr = {}
    /\ clientset = FALSE
    /\ recorder = {}
    /\ reconcilers = {}
    /\ webhooks = {}
    /\ regLog = <<>>
    /\ log = <<>>
    /\ tasks = [t \in TaskNames |-> [state |-> "notstarted", ctx |-> "none"]]
    /\ signalled = FALSE
    /\ startEntered = FALSE
    /\ observed = {}
    /\ exited = FALSE
    /\ exitStatus = 0
    /\ exitBy = "none"

Init == InitMain /\ InitHA

\* ------------------------------------------------- main goroutine: steps

\* go func() { ... debug.ListenAndServe(context.TODO(), debugAddr, ...) }()
GoSidecar ==
    /\ Alive /\ pc = "goSidecar"
    /\ UNCHANGED haVars
    /\ spc' = "listening"
    /\ tasks' = [tasks EXCEPT !["sidecar"] = [state |-> "running", ctx |-> "TODO"]]
    /\ pc' = "newBroadcaster"
    /\ UNCHANGED <<flags, err, broadcasters, mgr, clientset, recorder, reconcilers,
                   webhooks, regLog, log, signalled, startEntered, observed,
                   exited, exitStatus, exitBy>>

\* broadcaster := cgrecord.NewBroadcasterWithCorrelatorOptions({BurstSize: 100})
NewBroadcasterWithCorrelatorOptions ==
    /\ Alive /\ pc = "newBroadcaster"
    /\ UNCHANGED haVars
    /\ broadcasters' = [b \in {"broadcaster"} |->
                          [BurstSize |-> 100, recordingToSink |-> FALSE]]
    /\ pc' = "getConfig"
    /\ UNCHANGED <<flags, spc, err, mgr, clientset, recorder, reconcilers, webhooks,
                   regLog, log, tasks, signalled, startEntered, observed,
                   exited, exitStatus, exitBy>>

\* A failing step of main: the error is remembered, nothing else changes.
Fail(step, kind, name) ==
    /\ err' = {ErrLine(step, kind, name)}
    /\ observed' = observed \cup {[thread |-> "main", step |-> step, name |-> name]}
    /\ pc' = OnError(step)

\* ctrl.GetConfigOrDie(): returns the config, or logs and exits 1 itself.
GetConfigOrDie ==
    /\ Alive /\ pc = "getConfig"
    /\ UNCHANGED haVars
    /\ \E ok \in BOOLEAN :
         IF ok THEN /\ pc' = "newManager"
                    /\ UNCHANGED <<err, observed>>
               ELSE Fail("getConfig", "", "")
    /\ UNCHANGED <<flags, spc, broadcasters, mgr, clientset, recorder, reconcilers,
                   webhooks, regLog, log, tasks, signalled, startEntered,
                   exited, exitStatus, exitBy>>

\* mgr, err := ctrl.NewManager(config, ctrl.Options{...})
NewManager ==
    /\ Alive /\ pc = "newManager"
    /\ UNCHANGED haVars
    /\ \E ok \in BOOLEAN :
         IF ok THEN /\ mgr' = {ManagerOptions(flags, "broadcaster")}
                    /\ pc' = "newClient"
                    /\ UNCHANGED <<err, observed>>
               ELSE /\ Fail("newManager", "", "")
                    /\ UNCHANGED mgr
    /\ UNCHANGED <<flags, spc, broadcasters, clientset, recorder, reconcilers,
                   webhooks, regLog, log, tasks, signalled, startEntered,
                   exited, exitStatus, exitBy>>

\* clientset, err := kubernetes.NewForConfig(mgr.GetConfig())
NewForConfig ==
    /\ Alive /\ pc = "newClient"
    /\ UNCHANGED haVars
    /\ \E ok \in BOOLEAN :
         IF ok THEN /\ clientset' = TRUE
                    /\ pc' = "startRecording"
                    /\ UNCHANGED <<err, observed>>
               ELSE /\ Fail("newClient", "", "")
                    /\ UNCHANGED clientset
    /\ UNCHANGED <<flags, spc, broadcasters, mgr, recorder, reconcilers, webhooks,
                   regLog, log, tasks, signalled, startEntered,
                   exited, exitStatus, exitBy>>

\* eventBroadcaster := cgrecord.NewBroadcaster()   (zero CorrelatorOptions)
\* eventBroadcaster.StartRecordingToSink(&EventSinkImpl{...})
\* The watch StartRecordingToSink returns is dropped: the forwarder is given no
\* context and no one can stop it.
StartRecordingToSink ==
    /\ Alive /\ pc = "startRecording"
    /\ UNCHANGED haVars
    /\ broadcasters' = [b \in {"broadcaster", "eventBroadcaster"} |->
                          IF b = "eventBroadcaster"
                          THEN [BurstSize |-> 0, recordingToSink |-> TRUE]
                          ELSE broadcasters[b]]
    /\ tasks' = [tasks EXCEPT !["sinkForwarder"] = [state |-> "running", ctx |-> "none"]]
    /\ pc' = "newRecorder"
    /\ UNCHANGED <<flags, spc, err, mgr, clientset, recorder, reconcilers, webhooks,
                   regLog, log, signalled, startEntered, observed,
                   exited, exitStatus, exitBy>>

\* recorder := eventBroadcaster.NewRecorder(scheme, {Component: "caps-controller-manager"})
NewRecorder ==
    /\ Alive /\ pc = "newRecorder"
    /\ UNCHANGED haVars
    /\ recorder' = {[broadcaster |-> "eventBroadcaster",
                     component |-> "caps-controller-manager"]}
    /\ pc' = "register"
    /\ UNCHANGED <<flags, spc, err, broadcasters, mgr, clientset, reconcilers,
                   webhooks, regLog, log, tasks, signalled, startEntered, observed,
                   exited, exitStatus, exitBy>>

\* The next SetupWithManager / SetupWebhookWithManager call of the selected
\* branch; its position is the number of registrations attempted so far.
Register ==
    /\ Alive /\ pc = "register"
    /\ UNCHANGED haVars
    /\ Len(regLog) < Len(ModeSeq(flags.webhookPort))
    /\ LET kind == ModeKind(flags.webhookPort)
           name == ModeSeq(flags.webhookPort)[Len(regLog) + 1]
       IN \E ok \in BOOLEAN :
            /\ regLog' = Append(regLog, [kind |-> kind, name |-> name, ok |-> ok])
            /\ IF ok
               THEN /\ IF kind = "controller"
                       THEN /\ reconcilers' = reconcilers \cup {ReconcilerEntry(name, recorder)}
                            /\ UNCHANGED webhooks
                       ELSE /\ webhooks' = webhooks \cup {name}
                            /\ UNCHANGED reconcilers
                    /\ UNCHANGED <<pc, err, observed>>
               ELSE /\ Fail("register", kind, name)
                    /\ UNCHANGED <<reconcilers, webhooks>>
    /\ UNCHANGED <<flags, spc, broadcasters, mgr, clientset, recorder, log, tasks,
                   signalled, startEntered, exited, exitStatus, exitBy>>

\* setupLog.Info("starting manager"), once the selected branch is through.
LogStarting ==
    /\ Alive /\ pc = "register"
    /\ UNCHANGED haVars
    /\ Len(regLog) >= Len(ModeSeq(flags.webhookPort))
    /\ log' = Append(log, [thread |-> "main", level |-> "info",
                           msg |-> "starting manager", key |-> "", name |-> ""])
    /\ pc' = "start"
    /\ UNCHANGED <<flags, spc, err, broadcasters, mgr, clientset, recorder,
                   reconcilers, webhooks, regLog, tasks, signalled, startEntered,
                   observed, exited, exitStatus, exitBy>>

\* mgr.Start(ctrl.SetupSignalHandler()): the run loop is entered and the
\* manager's runnables start on the context the signal handler returned.
Start ==
    /\ Alive /\ pc = "start"
    /\ UNCHANGED haVars
    /\ startEntered' = TRUE
    /\ tasks' = [tasks EXCEPT ![ManagerTask(flags.webhookPort)] =
                                 [state |-> "running", ctx |-> "signal"]]
    /\ pc' = "running"
    /\ UNCHANGED <<flags, spc, err, broadcasters, mgr, clientset, recorder,
                   reconcilers, webhooks, regLog, log, signalled, observed,
                   exited, exitStatus, exitBy>>

\* The operating system delivers the termination signal to the handler.
Signal ==
    /\ Alive /\ startEntered /\ ~signalled
    /\ UNCHANGED haVars
    /\ signalled' = TRUE
    /\ UNCHANGED <<flags, pc, spc, err, broadcasters, mgr, clientset, recorder,
                   reconcilers, webhooks, regLog, log, tasks, startEntered,
                   observed, exited, exitStatus, exitBy>>

\* A running task whose context is cancelled observes it and stops.
TaskObserveCancel ==
    /\ Alive
    /\ UNCHANGED haVars
    /\ \E t \in TaskNames :
         /\ tasks[t].state = "running"
         /\ Cancelled(tasks[t].ctx)
         /\ tasks' = [tasks EXCEPT ![t].state = "stopped"]
    /\ UNCHANGED <<flags, pc, spc, err, broadcasters, mgr, clientset, recorder,
                   reconcilers, webhooks, regLog, log, signalled, startEntered,
                   observed, exited, exitStatus, exitBy>>

\* mgr.Start returns nil: the stop channel is closed and the runnables started
\* on it have stopped.
StartReturnNil ==
    /\ Alive /\ pc = "running"
    /\ UNCHANGED haVars
    /\ signalled
    /\ \A t \in TaskNames : tasks[t].ctx = "signal" => tasks[t].state = "stopped"
    /\ pc' = "return"
    /\ UNCHANGED <<flags, spc, err, broadcasters, mgr, clientset, recorder,
                   reconcilers, webhooks, regLog, log, tasks, signalled,
                   startEntered, observed, exited, exitStatus, exitBy>>

\* mgr.Start returns an error.
StartReturnErr ==
    /\ Alive /\ pc = "running"
    /\ UNCHANGED haVars
    /\ Fail("start", "", "")
    /\ UNCHANGED <<flags, spc, broadcasters, mgr, clientset, recorder,
                   reconcilers, webhooks, regLog, log, tasks, signalled,
                   startEntered, exited, exitStatus, exitBy>>

\* setupLog.Error(err, ...) of the failing step.
LogErr ==
    /\ Alive /\ pc = "logErr"
    /\ UNCHANGED haVars
    /\ \E e \in err :
         log' = Append(log, [thread |-> "main", level |-> "error",
                             msg |-> e.msg, key |-> e.key, name |-> e.name])
    /\ pc' = "exit1"
    /\ UNCHANGED <<flags, spc, err, broadcasters, mgr, clientset, recorder,
                   reconcilers, webhooks, regLog, tasks, signalled, startEntered,
                   observed, exited, exitStatus, exitBy>>

\* os.Exit(1)
Exit1 ==
    /\ Alive /\ pc = "exit1"
    /\ UNCHANGED haVars
    /\ exited' = TRUE /\ exitStatus' = 1 /\ exitBy' = "main"
    /\ UNCHANGED <<flags, pc, spc, err, broadcasters, mgr, clientset, recorder,
                   reconcilers, webhooks, regLog, log, tasks, signalled,
                   startEntered, observed>>

\* main returns: the process ends with status 0, whatever other goroutines do.
MainReturn ==
    /\ Alive /\ pc = "return"
    /\ UNCHANGED haVars
    /\ exited' = TRUE /\ exitStatus' = 0 /\ exitBy' = "main"
    /\ UNCHANGED <<flags, pc, spc, err, broadcasters, mgr, clientset, recorder,
                   reconcilers, webhooks, regLog, log, tasks, signalled,
                   startEntered, observed>>

\* ----------------------------------------------- debug sidecar goroutine

\* debug.ListenAndServe returns an error.
SidecarFail ==
    /\ Alive /\ spc = "listening"
    /\ UNCHANGED haVars
    /\ spc' = "logErr"
    /\ tasks' = [tasks EXCEPT !["sidecar"].state = "failed"]
    /\ observed' = observed \cup {[thread |-> "sidecar", step |-> "debug", name |-> ""]}
    /\ UNCHANGED <<flags, pc, err, broadcasters, mgr, clientset, recorder,
                   reconcilers, webhooks, regLog, log, signalled, startEntered,
                   exited, exitStatus, exitBy>>

\* setupLog.Error(err, "failed to start debug server")
SidecarLogErr ==
    /\ Alive /\ spc = "logErr"
    /\ UNCHANGED haVars
    /\ LET e == ErrLine("debug", "", "")
       IN log' = Append(log, [thread |-> "sidecar", level |-> "error",
                              msg |-> e.msg, key |-> e.key, name |-> e.name])
    /\ spc' = "exit1"
    /\ UNCHANGED <<flags, pc, err, broadcasters, mgr, clientset, recorder,
                   reconcilers, webhooks, regLog, tasks, signalled, startEntered,
                   observed, exited, exitStatus, exitBy>>

\* os.Exit(1) in the sidecar goroutine.
SidecarExit ==
    /\ Alive /\ spc = "exit1"
    /\ UNCHANGED haVars
    /\ exited' = TRUE /\ exitStatus' = 1 /\ exitBy' = "sidecar"
    /\ UNCHANGED <<flags, pc, spc, err, broadcasters, mgr, clientset, recorder,
                   reconcilers, webhooks, regLog, log, tasks, signalled,
                   startEntered, observed>>

\* The non-blocking tail of every fatal path of the main goroutine.
MainFatal == LogErr \/ Exit1

Next ==
    \/ GoSidecar
    \/ NewBroadcasterWithCorrelatorOptions
    \/ GetConfigOrDie
    \/ NewManager
    \/ NewForConfig
    \/ StartRecordingToSink
    \/ NewRecorder
    \/ Register
    \/ LogStarting
    \/ Start
    \/ Signal
    \/ TaskObserveCancel
    \/ StartReturnNil
    \/ StartReturnErr
    \/ LogErr
    \/ Exit1
    \/ MainReturn
    \/ SidecarFail
    \/ SidecarLogErr
    \/ SidecarExit

Spec == Init /\ [][Next]_vars

\* The main goroutine stays runnable between a failed call and os.Exit(1):
\* logging and exiting do not block.
FairSpec == Spec /\ WF_vars(MainFatal)

\* ------------------------------------------------- replicas (SpecHA)

Replicas == 1..NumReplicas

\* The flags a replica may be started with.
HAFlags == [metricsAddr : MetricsAddrs,
            enableLeaderElection : BOOLEAN,
            webhookPort : {0, MaxPort}]

\* A replica is started: flag.Parse, then ctrl.NewManager with the options
\* literal. A replica that has exited before counts as a restart.
RStart(r) ==
    /\ rstate[r] \in {"stopped", "exited"}
    /\ UNCHANGED mainVars
    /\ rstate[r] = "exited" => restarts < MaxRestarts
    /\ restarts' = IF rstate[r] = "exited" THEN restarts + 1 ELSE restarts
    /\ \E f \in HAFlags :
         /\ rflags' = [rflags EXCEPT ![r] = f]
         /\ rmgr' = [rmgr EXCEPT ![r] = {ManagerOptions(f, "broadcaster")}]
    /\ rstate' = [rstate EXCEPT ![r] = "constructed"]
    /\ UNCHANGED leases

\* mgr.Start: with LeaderElection set the manager waits for the lease before
\* it runs anything that needs election; without it, it runs at once.
RRun(r) ==
    /\ rstate[r] = "constructed"
    /\ UNCHANGED mainVars
    /\ \E o \in rmgr[r] :
         rstate' = [rstate EXCEPT ![r] = IF o.LeaderElection THEN "waiting" ELSE "active"]
    /\ UNCHANGED <<rflags, rmgr, leases, restarts>>

\* The object store grants a lease to one holder per lease identity.
RAcquire(r) ==
    /\ rstate[r] = "waiting"
    /\ UNCHANGED mainVars
    /\ \E o \in rmgr[r] :
         /\ \A l \in leases : l.id # o.LeaderElectionID
         /\ leases' = leases \cup {[id |-> o.LeaderElectionID, holder |-> r]}
    /\ rstate' = [rstate EXCEPT ![r] = "active"]
    /\ UNCHANGED <<rflags, rmgr, restarts>>

\* The replica's process ends (any exit of main); a lease it held is freed.
RExit(r) ==
    /\ rstate[r] \in {"constructed", "waiting", "active"}
    /\ UNCHANGED mainVars
    /\ rstate' = [rstate EXCEPT ![r] = "exited"]
    /\ rmgr' = [rmgr EXCEPT ![r] = {}]
    /\ leases' = {l \in leases : l.holder # r}
    /\ UNCHANGED <<rflags, restarts>>

NextHA ==
    \/ \E r \in Replicas : RStart(r)
    \/ \E r \in Replicas : RRun(r)
    \/ \E r \in Replicas : RAcquire(r)
    \/ \E r \in Replicas : RExit(r)

InitMainFixed ==
    InitMain /\ flags = [metricsAddr |-> ":8080", enableLeaderElection |-> TRUE,
                         webhookPort |-> 0]

InitReplicas == InitMainFixed /\ InitHA

SpecHA == InitReplicas /\ [][NextHA]_vars

\* ---------------------------------------------------------------- claims

ReconcilerSet == {ReconcilerNames[i] : i \in 1..Len(ReconcilerNames)}
WebhookSet == {WebhookNames[i] : i \in 1..Len(WebhookNames)}
RegisteredReconcilers == {e.name : e \in reconcilers}

\* C1: for every value of webhook-port, negative ones included, reconcilers and
\* webhooks are never both registered, and once the run loop is entered
\* webhook-port = 0 means exactly the three reconcilers and no webhook, while
\* webhook-port # 0 means exactly the four webhooks and no reconciler.
C1_ModeExclusive ==
    /\ ~(reconcilers # {} /\ webhooks # {})
    /\ startEntered =>
         IF flags.webhookPort = 0
         THEN /\ RegisteredReconcilers = {"MetalCluster", "MetalMachine", "ServerBinding"}
              /\ Cardinality(reconcilers) = 3
              /\ webhooks = {}
         ELSE /\ webhooks = {"MetalCluster", "MetalMachine", "MetalMachineTemplate",
                             "ServerBinding"}
              /\ reconcilers = {}

\* The run loop entered in webhook mode with a negative port.
C1_Witness ==
    /\ startEntered
    /\ flags.webhookPort < 0
    /\ Cardinality(webhooks) = 4
    /\ reconcilers = {}

RegFailed == \E i \in 1..Len(regLog) : ~regLog[i].ok

FullRegistration ==
    IF flags.webhookPort = 0
    THEN RegisteredReconcilers = ReconcilerSet /\ webhooks = {}
    ELSE webhooks = WebhookSet /\ reconcilers = {}

C2_Safe ==
    /\ \A i \in 1..Len(regLog) : ~regLog[i].ok => i = Len(regLog)
    /\ RegFailed => (~startEntered /\ pc # "start" /\ pc # "running"
                     /\ (exited => exitStatus = 1))
    /\ startEntered => FullRegistration

\* C2: once a registration has returned an error, no later registration is
\* attempted, the run loop is never entered, and the process ends with exit
\* status 1; the run loop never runs with a strict subset of the mode's entries.
C2_AllOrNothing ==
    /\ []C2_Safe
    /\ RegFailed ~> (exited /\ exitStatus = 1)

\* The second registration failed after the first succeeded, and main exited.
C2_Witness ==
    /\ RegFailed
    /\ Len(regLog) = 2
    /\ reconcilers \cup webhooks # {}
    /\ exited /\ exitStatus = 1 /\ exitBy = "main"

ConstructionFailed ==
    \E o \in observed : o.thread = "main" /\ o.step \in {"newManager", "newClient"}

C3_Safe ==
    ConstructionFailed =>
      /\ ~startEntered
      /\ reconcilers = {} /\ webhooks = {} /\ regLog = <<>>
      /\ tasks["sinkForwarder"].state = "notstarted"
      /\ \A b \in DOMAIN broadcasters : ~broadcasters[b].recordingToSink
      /\ exited => exitStatus = 1

\* C3: when ctrl.NewManager or the creation of the API client fails, the process
\* ends with exit status 1, never having entered the run loop, registered a
\* reconciler or a webhook, or started recording events to the sink.
C3_ConstructionFailure ==
    /\ []C3_Safe
    /\ ConstructionFailed ~> (exited /\ exitStatus = 1)

\* The client could not be created for a constructed manager, and main exited.
C3_Witness ==
    /\ \E o \in observed : o.step = "newClient"
    /\ mgr # {} /\ ~clientset
    /\ exited /\ exitStatus = 1 /\ exitBy = "main"

\* C4: whenever the debug sidecar's listener has returned an error, the process
\* ends with exit status 1, under every interleaving with the main goroutine.
C4_SidecarErrorFatal ==
    (exited /\ \E o \in observed : o.thread = "sidecar") => exitStatus = 1

\* C5: exit status 0 only after the run loop was entered with the full
\* registration set and returned without error after the termination signal,
\* and never after a fatal error was observed; every fatal error that ends the
\* process ends it with status 1.
C5_ExitStatus ==
    exited =>
      IF exitStatus = 0
      THEN startEntered /\ FullRegistration /\ signalled /\ observed = {}
      ELSE exitStatus = 1 /\ observed # {}

\* C6: the broadcaster that records to the sink, and the one behind the
\* recorder handed to the reconcilers, has correlator burst size 100.
C6_BurstSize ==
    /\ \A b \in DOMAIN broadcasters :
         broadcasters[b].recordingToSink => broadcasters[b].BurstSize = 100
    /\ \A e \in reconcilers : \A r \in e.Recorder :
         broadcasters[r.broadcaster].BurstSize = 100

ElectingReplicas ==
    {r \in Replicas : /\ rmgr[r] # {}
                      /\ rflags[r].enableLeaderElection
                      /\ rflags[r].webhookPort = 0}

\* C7: replicas started with leader election enabled and webhook-port 0 all
\* use the lease identity "controller-leader-election-capm", whatever their
\* other flags and however often they restart, and at most one of them at a
\* time holds the lease and runs reconcilers.
C7_OneLeader ==
    /\ \A r \in ElectingReplicas : \A o \in rmgr[r] :
         o.LeaderElectionID = "controller-leader-election-capm"
    /\ Cardinality({r \in ElectingReplicas : rstate[r] = "active"}) <= 1
    /\ Cardinality({r \in ElectingReplicas : \E l \in leases : l.holder = r}) <= 1

\* One replica leads while another, started with a different metrics address
\* after a restart, waits for the same lease.
C7_Witness ==
    \E r1, r2 \in ElectingReplicas :
      /\ r1 # r2
      /\ rstate[r1] = "active" /\ rstate[r2] = "waiting"
      /\ rflags[r1].metricsAddr # rflags[r2].metricsAddr
      /\ restarts > 0

\* C8: after the termination signal, every background task that was started
\* runs on a context derived from the signal's and has stopped by the time
\* the process exits.
C8_TasksStopOnSignal ==
    (exited /\ exitStatus = 0 /\ signalled) =>
      \A t \in TaskNames :
        tasks[t].state # "notstarted" =>
          (tasks[t].ctx = "signal" /\ tasks[t].state = "stopped")

ErrorLinesOf(t) == SelectSeq(log, LAMBDA l : l.thread = t /\ l.level = "error")

\* What the claim expects the error line of a failed step to say.
NamesStep(l, o) ==
    CASE o.step = "debug"      -> l.msg = "failed to start debug server"
      [] o.step = "getConfig"  -> l.msg = "unable to get kubeconfig"
      [] o.step = "newManager" -> l.msg = "unable to start manager"
      [] o.step = "newClient"  -> l.msg = "unable to create k8s client"
      [] o.step = "start"      -> l.msg = "problem running manager"
      [] o.step = "register"   ->
           /\ l.key \in {"controller", "webhook"}
           /\ l.name = o.name
           /\ l.name \in WebhookSet

\* C9: every exit with status 1 is preceded, in the goroutine that exits, by
\* exactly one error log line, which names the step that failed there (for a
\* registration, the controller or webhook whose registration failed).
C9_LoggedBeforeExit ==
    (exited /\ exitStatus = 1) =>
      /\ Len(ErrorLinesOf(exitBy)) = 1
      /\ \E o \in observed : o.thread = exitBy /\ NamesStep(ErrorLinesOf(exitBy)[1], o)
      /\ \A o \in observed : o.thread = exitBy => NamesStep(ErrorLinesOf(exitBy)[1], o)

\* main exits on the failed ServerBinding registration while the sidecar has
\* logged its own error and not exited yet.
C9_Witness ==
    /\ exited /\ exitStatus = 1 /\ exitBy = "main"
    /\ \E o \in observed : o.step = "register" /\ o.name = "ServerBinding"
    /\ spc = "exit1"
    /\ Len(log) = 2

\* C10: every registered reconciler has a maximum-concurrent-reconciliations
\* bound of 10, in every state after its registration and for every flag value.
C10_ConcurrencyBound ==
    /\ \A e \in reconcilers : e.options.MaxConcurrentReconciles = 10
    /\ \A e1, e2 \in reconcilers :
         e1.options.MaxConcurrentReconciles = e2.options.MaxConcurrentReconciles
    /\ (startEntered /\ flags.webhookPort = 0) => Cardinality(reconcilers) = 3

\* The three reconcilers registered, the run loop entered and signalled.
C10_Witness ==
    /\ startEntered /\ signalled
    /\ RegisteredReconcilers = ReconcilerSet
    /\ flags.metricsAddr = ":9090" /\ ~flags.enableLeaderElection

====
